---- MODULE Spec2Model ----
(***************************************************************************)
(* Model of homebox.py: a command-line client of the Homebox REST API.     *)
(*                                                                         *)
(* Strings are sequences of one-character strings, so that split, strip    *)
(* and "/".join are computed as Python computes them.  The server is the   *)
(* list of location records, the list of tags and the items.  Every step   *)
(* records in log the HTTP requests it issued, in order.                   *)
(***************************************************************************)
EXTENDS Integers, Sequences, FiniteSets, TLC

VARIABLES
    locs,     \* server: location records, in the order GET /locations lists them
    tags,     \* server: tag records, in the order GET /tags lists them
    items,    \* server: item records
    issued,   \* server: the token returned by the latest successful login
    hdr,      \* client: self.headers["Authorization"], NoAuth while unset
    first,    \* the first request this process issued, NoReq before any
    log,      \* the requests issued by the latest step, oldest first
    pc,       \* "init", "ready", "done" or "error"
    cmd,      \* args.command, or "api" when the client is used as a library
    dry_run,  \* args.dry_run
    arg,      \* [name, description, parent, csv]: the other command-line arguments
    rowIdx,   \* number of CSV rows consumed so far
    ret,      \* the latest step: its call, arguments and outcome
    outfile,  \* rows written by export-items
    run,      \* how many times the program has been started
    prev      \* [st, locs]: how the previous run ended and the locations it left

vars == <<locs, tags, items, issued, hdr, first, log, pc, cmd, dry_run, arg,
          rowIdx, ret, outfile, run, prev>>

-----------------------------------------------------------------------------
(* Bounds of the model *)

\* most location records on the server when a command starts
MaxLocs == 1
\* most location records on the server when the client is used as a library
MaxTreeLocs == 3
\* most rows of a CSV file
MaxRows == 2
\* most starts of the program
MaxRuns == 2
\* most segments of a path handed to resolve_location_path
MaxSegs == 2

-----------------------------------------------------------------------------
(* Python values *)

\* None where a string is expected (a parent name, a CSV field)
None == <<"<None>">>
\* None where an identifier is expected
NoId == 0
\* headers without an Authorization entry
NoAuth == "<unset>"

Truthy(s) == s # None /\ s # <<>>

Max(S) == CHOOSE x \in S : \A y \in S : y <= x

\* str.strip(): leading and trailing whitespace removed
RECURSIVE LStrip(_)
LStrip(s) == IF s # <<>> /\ Head(s) = " " THEN LStrip(Tail(s)) ELSE s
RECURSIVE RStrip(_)
RStrip(s) ==
    IF s # <<>> /\ s[Len(s)] = " " THEN RStrip(SubSeq(s, 1, Len(s) - 1)) ELSE s
Strip(s) == RStrip(LStrip(s))

\* str.split(sep): always at least one part; "a/" gives <<"a", "">>
RECURSIVE SplitFrom(_, _, _)
SplitFrom(s, sep, cur) ==
    IF s = <<>> THEN <<cur>>
    ELSE IF Head(s) = sep THEN <<cur>> \o SplitFrom(Tail(s), sep, <<>>)
    ELSE SplitFrom(Tail(s), sep, Append(cur, Head(s)))
Split(s, sep) == SplitFrom(s, sep, <<>>)

\* sep.join(parts)
RECURSIVE Join(_, _)
Join(parts, sep) ==
    IF parts = <<>> THEN <<>>
    ELSE IF Len(parts) = 1 THEN parts[1]
    ELSE parts[1] \o sep \o Join(Tail(parts), sep)

\* int(s): the digits' value, or -1 for the ValueError of a non-number
Digits == <<"0", "1", "2", "3", "4", "5", "6", "7", "8", "9">>
DigitVal(ch) == (CHOOSE i \in 1..10 : Digits[i] = ch) - 1
IsDigit(ch) == \E i \in 1..10 : Digits[i] = ch
RECURSIVE IntOf(_, _)
IntOf(s, acc) ==
    IF s = <<>> THEN acc
    ELSE IF IsDigit(Head(s)) THEN IntOf(Tail(s), 10 * acc + DigitVal(Head(s)))
    ELSE -1
ParseInt(s) == LET t == Strip(s) IN IF t = <<>> THEN -1 ELSE IntOf(t, 0)

-----------------------------------------------------------------------------
(* Errors and the context threaded through a call *)

NoErr == [kind |-> "none", path |-> <<>>, part |-> <<>>]
Err(kind, path, part) == [kind |-> kind, path |-> path, part |-> part]

\* A call runs on a context c: the server's state, the requests issued so
\* far by this step, the client's header, and st = "ok" until an exception is
\* raised (err says which).  failAt is the position in the step's requests of
\* the one the server answers with an HTTP error status (0: none); row is the
\* CSV row being processed.
Ctx(f, row) ==
    [locs |-> locs, tags |-> tags, items |-> items, log |-> <<>>,
     st |-> "ok", err |-> NoErr, failAt |-> f, auth |-> hdr, row |-> row]

Raise(c, e) == [c EXCEPT !.st = "error", !.err = e]

\* The JSON body of a request, as far as the model looks at it
NoData == [name |-> <<>>, ref |-> NoId]
Data(name, ref) == [name |-> name, ref |-> ref]

\* Mutant of Send: raise_for_status() is never called
Send_unchecked(c, m, res, id, data, checked, reject) ==
    LET bad == checked /\ (reject \/ Len(c.log) + 1 = c.failAt)
        e == [m |-> m, res |-> res, id |-> id, data |-> data, auth |-> c.auth,
              row |-> c.row, ok |-> ~bad]
    IN [c EXCEPT !.log = Append(@, e)]

\* requests.<m>(url, headers=self.headers, json=data), followed by
\* raise_for_status() when checked.  reject: the server answers with an error
\* status whatever happens; otherwise the server answers with an error status
\* at most once a step, at position failAt, and only to a request whose status
\* the code checks (the unchecked GET of get_location is always answered).
Send(c, m, res, id, data, checked, reject) ==
    LET bad == checked /\ (reject \/ Len(c.log) + 1 = c.failAt)
        e == [m |-> m, res |-> res, id |-> id, data |-> data, auth |-> c.auth,
              row |-> c.row, ok |-> ~bad]
        c1 == [c EXCEPT !.log = Append(@, e)]
    IN IF bad THEN Raise(c1, Err("HTTPError", <<>>, <<>>)) ELSE c1

NoReq == [m |-> "none", res |-> "none", id |-> NoId, data |-> NoData,
          auth |-> NoAuth, row |-> 0, ok |-> FALSE]

Mutating(e) == e.m \in {"POST", "PUT", "DELETE"} /\ e.res # "login"

-----------------------------------------------------------------------------
(* The server's view of a location *)

LocById(ls, id) ==
    LET S == {i \in 1..Len(ls) : ls[i].id = id}
    IN IF S = {} THEN [id |-> NoId, name |-> None, description |-> <<>>, parent |-> NoId]
       ELSE ls[CHOOSE i \in S : TRUE]

HasLoc(ls, id) == \E i \in 1..Len(ls) : ls[i].id = id

\* GET /locations/{id}: the "parent" object is present only for a child
DetailParentName(ls, l) ==
    IF l.parent # NoId /\ HasLoc(ls, l.parent) THEN LocById(ls, l.parent).name ELSE None
DetailParentId(ls, l) ==
    IF l.parent # NoId /\ HasLoc(ls, l.parent) THEN l.parent ELSE NoId

NewId(s) == IF Len(s) = 0 THEN 1 ELSE Max({s[i].id : i \in 1..Len(s)}) + 1

-----------------------------------------------------------------------------
(* HomeboxClient *)

\* What a call returns: the context after it, and its value
R(c, v) == [c |-> c, v |-> v]

NoLoc == [found |-> FALSE, id |-> NoId, parentId |-> NoId]

\* get_location, lines 164-171: the candidates are examined in list order;
\* each costs one unchecked GET /locations/{id}; the first whose parent's
\* name passes the filter is returned with its parentId
RECURSIVE ScanCandidates(_, _, _, _)
ScanCandidates(c, cands, k, parent_name) ==
    IF k > Len(cands) THEN R(c, NoLoc)
    ELSE LET loc == cands[k]
             c1 == Send(c, "GET", "locations", loc.id, NoData, FALSE, FALSE)
             parent == DetailParentName(c.locs, loc)
         IN IF parent_name = None \/ parent = parent_name
            THEN R(c1, [found |-> TRUE, id |-> loc.id,
                        parentId |-> DetailParentId(c.locs, loc)])
            ELSE ScanCandidates(c1, cands, k + 1, parent_name)

\* Mutant of get_location: the parent filter is dropped
get_location_any_parent(c, name, parent_name) ==
    LET c1 == Send(c, "GET", "locations", NoId, NoData, TRUE, FALSE)
        candidates == SelectSeq(c1.locs, LAMBDA l : l.name = name)
    IN IF c1.st # "ok" THEN R(c1, NoLoc)
       ELSE ScanCandidates(c1, candidates, 1, None)

get_location(c, name, parent_name) ==
    LET c1 == Send(c, "GET", "locations", NoId, NoData, TRUE, FALSE)
        candidates == SelectSeq(c1.locs, LAMBDA l : l.name = name)
    IN IF c1.st # "ok" THEN R(c1, NoLoc)
       ELSE ScanCandidates(c1, candidates, 1, parent_name)

\* get_all_locations: one checked GET /locations, then one checked
\* GET /locations/{id} per record
RECURSIVE FetchDetails(_, _, _)
FetchDetails(c, k, acc) ==
    IF c.st # "ok" THEN R(c, <<>>)
    ELSE IF k > Len(c.locs) THEN R(c, acc)
    ELSE LET l == c.locs[k]
             c1 == Send(c, "GET", "locations", l.id, NoData, TRUE, FALSE)
             o == [id |-> l.id, name |-> l.name, description |-> l.description,
                   parentId |-> DetailParentId(c.locs, l)]
         IN FetchDetails(c1, k + 1, Append(acc, o))

get_all_locations(c) ==
    LET c1 == Send(c, "GET", "locations", NoId, NoData, TRUE, FALSE)
    IN FetchDetails(c1, 1, <<>>)

\* Mutant of create_location: a parent that is not found is taken for no parent
create_location_orphan_as_root(c, name, description, parent_name) ==
    LET r1 == get_location(c, name, parent_name)
    IN IF r1.c.st # "ok" THEN R(r1.c, "raised")
       ELSE IF r1.v.found THEN R(r1.c, "skipped")
       ELSE LET r2 == IF Truthy(parent_name)
                      THEN get_location(r1.c, parent_name, None)
                      ELSE R(r1.c, NoLoc)
            IN IF r2.c.st # "ok" THEN R(r2.c, "raised")
               ELSE LET parent_id == r2.v.id
                        c3 == Send(r2.c, "POST", "locations", NoId,
                                   Data(name, parent_id), TRUE, FALSE)
                        new == [id |-> NewId(c3.locs), name |-> name,
                                description |-> description, parent |-> parent_id]
                    IN IF c3.st # "ok" THEN R(c3, "raised")
                       ELSE R([c3 EXCEPT !.locs = Append(@, new)], "created")

\* The value of create_location: "created", "skipped" (return None), "raised"
create_location(c, name, description, parent_name) ==
    LET r1 == get_location(c, name, parent_name)
    IN IF r1.c.st # "ok" THEN R(r1.c, "raised")
       ELSE IF r1.v.found THEN R(r1.c, "skipped")
       ELSE LET r2 == IF Truthy(parent_name)
                      THEN get_location(r1.c, parent_name, None)
                      ELSE R(r1.c, NoLoc)
            IN IF r2.c.st # "ok" THEN R(r2.c, "raised")
               ELSE IF Truthy(parent_name) /\ ~r2.v.found
               THEN \* None["id"]
                    R(Raise(r2.c, Err("TypeError", <<>>, parent_name)), "raised")
               ELSE LET parent_id == r2.v.id
                        c3 == Send(r2.c, "POST", "locations", NoId,
                                   Data(name, parent_id), TRUE, FALSE)
                        new == [id |-> NewId(c3.locs), name |-> name,
                                description |-> description, parent |-> parent_id]
                    IN IF c3.st # "ok" THEN R(c3, "raised")
                       ELSE R([c3 EXCEPT !.locs = Append(@, new)], "created")

\* resolve_location_path: the value is [id, matched], matched being the ids
\* of the records returned for the segments, in order
NoRes == [id |-> NoId, matched |-> <<>>]

RECURSIVE ResolveParts(_, _, _, _, _, _)
ResolveParts(c, path, parts, k, current_parent, matched) ==
    IF k > Len(parts) THEN R(c, [id |-> matched[Len(matched)], matched |-> matched])
    ELSE LET r == get_location(c, parts[k], current_parent)
         IN IF r.c.st # "ok" THEN R(r.c, NoRes)
            ELSE IF ~r.v.found
            THEN R(Raise(r.c, Err("ValueError", path, parts[k])), NoRes)
            ELSE ResolveParts(r.c, path, parts, k + 1, parts[k], Append(matched, r.v.id))

resolve_location_path(c, path) ==
    IF ~Truthy(path) THEN R(c, NoRes)
    ELSE ResolveParts(c, path, Split(Strip(path), "/"), 1, None, <<>>)

\* get_tags
get_tags(c) ==
    LET c1 == Send(c, "GET", "tags", NoId, NoData, TRUE, FALSE)
    IN R(c1, IF c1.st = "ok" THEN c1.tags ELSE <<>>)

\* get_or_create_tag: the value is the tag's id
get_or_create_tag(c, name) ==
    LET r == get_tags(c)
        hit == {i \in 1..Len(r.v) : r.v[i].name = name}
    IN IF r.c.st # "ok" THEN R(r.c, NoId)
       ELSE IF hit # {} THEN R(r.c, r.v[CHOOSE i \in hit : \A j \in hit : i <= j].id)
       ELSE LET c2 == Send(r.c, "POST", "tags", NoId, Data(name, NoId), TRUE, FALSE)
                t == [id |-> NewId(c2.tags), name |-> name]
            IN IF c2.st # "ok" THEN R(c2, NoId)
               ELSE R([c2 EXCEPT !.tags = Append(@, t)], t.id)

RECURSIVE TagIdsOf(_, _, _, _)
TagIdsOf(c, names, k, acc) ==
    IF c.st # "ok" THEN R(c, <<>>)
    ELSE IF k > Len(names) THEN R(c, acc)
    ELSE LET r == get_or_create_tag(c, names[k])
         IN TagIdsOf(r.c, names, k + 1, Append(acc, r.v))

resolve_tag_names(c, tag_names_str) ==
    IF ~Truthy(tag_names_str) THEN R(c, <<>>)
    ELSE LET raw == Split(tag_names_str, ",")
             tag_names == [i \in 1..Len(raw) |-> Strip(raw[i])]
         IN TagIdsOf(c, tag_names, 1, <<>>)

\* get_items
get_items(c) ==
    LET c1 == Send(c, "GET", "items", NoId, NoData, TRUE, FALSE)
    IN R(c1, IF c1.st = "ok" THEN c1.items ELSE <<>>)

\* build_location_lookup_tree.get_path: fuel counts the frames left before
\* Python's RecursionError; the value <<"<RecursionError>">> stands for it
RecursionError == <<"<RecursionError>">>

ObjById(all, id) ==
    LET S == {i \in 1..Len(all) : all[i].id = id}
    IN IF S = {} THEN [id |-> NoId, name |-> None, description |-> <<>>, parentId |-> NoId]
       ELSE all[CHOOSE i \in S : \A j \in S : j <= i]

\* Mutant of get_path: the names are joined leaf first
RECURSIVE get_path_leaf_first(_, _, _)
get_path_leaf_first(all, loc, fuel) ==
    IF fuel = 0 THEN RecursionError
    ELSE IF loc.parentId = NoId THEN loc.name
    ELSE LET parent == ObjById(all, loc.parentId)
         IN IF parent.id = NoId THEN loc.name
            ELSE LET up == get_path_leaf_first(all, parent, fuel - 1)
                 IN IF up = RecursionError THEN RecursionError
                    ELSE loc.name \o <<"/">> \o up

RECURSIVE get_path(_, _, _)
get_path(all, loc, fuel) ==
    IF fuel = 0 THEN RecursionError
    ELSE IF loc.parentId = NoId THEN loc.name
    ELSE LET parent == ObjById(all, loc.parentId)
         IN IF parent.id = NoId THEN loc.name
            ELSE LET up == get_path(all, parent, fuel - 1)
                 IN IF up = RecursionError THEN RecursionError
                    ELSE up \o <<"/">> \o loc.name

\* The value is full_paths as the set of its <<id, path>> pairs
build_location_lookup_tree(c) ==
    LET r == get_all_locations(c)
        all == r.v
        paths == {<<all[i].id, get_path(all, all[i], Len(all) + 1)>> : i \in 1..Len(all)}
    IN IF r.c.st # "ok" THEN R(r.c, {})
       ELSE IF \E p \in paths : p[2] = RecursionError
       THEN R(Raise(r.c, Err("RecursionError", <<>>, <<>>)), {})
       ELSE R(r.c, paths)

MapGet(m, k, default) ==
    IF \E p \in m : p[1] = k THEN (CHOOSE p \in m : p[1] = k)[2] ELSE default

\* build_tag_lookup
build_tag_lookup(c) ==
    LET r == get_tags(c)
    IN R(r.c, {<<r.v[i].id, r.v[i].name>> : i \in 1..Len(r.v)})

\* Location.set_parent on the Location object obj; the value is the object
\* after the call
set_parent(c, obj, new_parent_name) ==
    LET r == get_location(c, new_parent_name, None)
    IN IF r.c.st # "ok" THEN R(r.c, obj)
       ELSE IF ~r.v.found
       THEN R(Raise(r.c, Err("ValueError", <<>>, new_parent_name)), obj)
       ELSE LET c2 == Send(r.c, "PUT", "locations", obj.id,
                           Data(obj.name, r.v.id), TRUE, ~HasLoc(r.c.locs, obj.id))
                put == [i \in 1..Len(c2.locs) |->
                          IF c2.locs[i].id = obj.id
                          THEN [id |-> obj.id, name |-> obj.name,
                                description |-> obj.description, parent |-> r.v.id]
                          ELSE c2.locs[i]]
            IN IF c2.st # "ok" THEN R(c2, obj)
               ELSE R([c2 EXCEPT !.locs = put], [obj EXCEPT !.parentId = r.v.id])

HasItem(its, id) == \E i \in 1..Len(its) : its[i].id = id

\* The body of the loop of update_items_from_csv_readable for one row; the
\* value is "skipped" (no id), "dry", "updated" or "raised"
update_row(c, row, dry) ==
    LET put_item(c2, location_id, tag_ids, quantity) ==
            LET new == [id |-> row.id, name |-> row.name,
                        description |-> row.description, quantity |-> quantity,
                        locationId |-> location_id, tagIds |-> tag_ids]
                stored(c3) ==
                    IF c3.st # "ok" THEN R(c3, "raised")
                    ELSE R([c3 EXCEPT !.items =
                                [i \in 1..Len(c3.items) |->
                                    IF c3.items[i].id = row.id THEN new
                                    ELSE c3.items[i]]], "updated")
            IN stored(Send(c2, "PUT", "items", row.id, Data(row.name, location_id),
                           TRUE, ~HasItem(c2.items, row.id)))
        with_tags(location_id, r2, quantity) ==
            IF r2.c.st # "ok" THEN R(r2.c, "raised")
            ELSE IF quantity < 0
            THEN R(Raise(r2.c, Err("ValueError", <<>>, row.quantity)), "raised")
            ELSE IF dry THEN R(r2.c, "dry")
            ELSE put_item(r2.c, location_id, r2.v, quantity)
        with_location(r1) ==
            IF r1.c.st # "ok" THEN R(r1.c, "raised")
            ELSE with_tags(r1.v.id, resolve_tag_names(r1.c, row.tags),
                           ParseInt(row.quantity))
    IN IF row.id = NoId THEN R(c, "skipped")
       ELSE with_location(resolve_location_path(c, row.locationPath))

\* export_items_readable_csv; the value is the rows written to the file
export_items_readable_csv(c) ==
    LET line(item, loc_map, tag_map) ==
            [id |-> item.id, name |-> item.name, description |-> item.description,
             quantity |-> item.quantity,
             locationPath |-> MapGet(loc_map, item.locationId, <<>>),
             tags |-> Join([k \in 1..Len(item.tagIds) |->
                               MapGet(tag_map, item.tagIds[k], <<>>)], <<",", " ">>)]
        write(its, loc_map, r3) ==
            IF r3.c.st # "ok" THEN R(r3.c, <<>>)
            ELSE R(r3.c, [k \in 1..Len(its) |-> line(its[k], loc_map, r3.v)])
        with_locations(its, r2) ==
            IF r2.c.st # "ok" THEN R(r2.c, <<>>)
            ELSE write(its, r2.v, build_tag_lookup(r2.c))
        with_items(r1) ==
            IF r1.c.st # "ok" THEN R(r1.c, <<>>)
            ELSE with_locations(r1.v, build_location_lookup_tree(r1.c))
    IN with_items(get_items(c))

-----------------------------------------------------------------------------
(* Inputs *)

NameSet == {<<"a">>, <<"b">>}
Desc == <<"d">>
Tokens == {"tok1", "tok2"}

\* Location records 1..n with names of NameSet and any parent links
Shapes(n) ==
    {[i \in 1..n |-> [id |-> i, name |-> nm[i], description |-> Desc, parent |-> pr[i]]] :
        nm \in [1..n -> NameSet], pr \in [1..n -> 0..n]}

\* The chain of parent links from id reaches a root within fuel steps
RECURSIVE ReachesRoot(_, _, _)
ReachesRoot(ls, id, fuel) ==
    IF id = NoId THEN TRUE
    ELSE IF fuel = 0 \/ ~HasLoc(ls, id) THEN FALSE
    ELSE ReachesRoot(ls, LocById(ls, id).parent, fuel - 1)

Acyclic(ls) == \A i \in 1..Len(ls) : ReachesRoot(ls, ls[i].id, Len(ls))

\* The forests of at most n records
Forests(n) == UNION {{ls \in Shapes(k) : Acyclic(ls)} : k \in 0..n}

InitTags == {<<>>, <<[id |-> 1, name |-> <<"t">>]>>}

InitItems(ls, ts) ==
    <<[id |-> 1, name |-> <<"x">>, description |-> <<>>, quantity |-> 1,
       locationId |-> IF ls = <<>> THEN NoId ELSE ls[Len(ls)].id,
       tagIds |-> [k \in 1..Len(ts) |-> ts[k].id]]>>

\* --parent: absent (None), empty, or a name
ParentArgs == {None, <<>>} \cup NameSet

\* The rows load_locations_from_csv returns: a short row's parent is None,
\* an empty cell's is ""
ImportRows ==
    {[name |-> n, description |-> Desc, parent |-> p] :
        n \in NameSet, p \in {None, <<>>, <<"a">>}}
CsvFiles == UNION {[1..k -> ImportRows] : k \in 0..MaxRows}

\* The rows csv.DictReader hands to update_items_from_csv_readable
UpdateRows ==
    {[id |-> i, name |-> <<"y">>, description |-> <<>>, quantity |-> q,
      locationPath |-> lp, tags |-> tg] :
        i \in {NoId, 1, 2}, q \in {<<"1">>, <<"x">>},
        lp \in {<<>>, <<"a">>, <<"a", "/", "b">>},
        tg \in {<<>>, <<"t">>, <<"t", ",", " ", "u">>}}

\* The paths handed to resolve_location_path
SegSet == {<<>>, <<"a">>, <<"b">>, <<" ", "a", " ">>}
PathInputs ==
    {None} \cup UNION {{Join(segs, <<"/">>) : segs \in [1..k -> SegSet]} : k \in 1..MaxSegs}

NoArg == [name |-> <<>>, description |-> <<>>, parent |-> None, csv |-> <<>>]

-----------------------------------------------------------------------------
(* The state after construction of the process *)

NoCall == [name |-> <<>>, parent |-> None, path |-> <<>>, id |-> NoId]
NoRet == [op |-> "none", a |-> NoCall, st |-> "ok", err |-> NoErr, v |-> <<>>,
          before |-> <<>>]

Fresh ==
    /\ issued = NoAuth
    /\ hdr = NoAuth
    /\ first = NoReq
    /\ log = <<>>
    /\ pc = "init"
    /\ rowIdx = 0
    /\ ret = NoRet
    /\ outfile = <<>>
    /\ run = 1
    /\ prev = [st |-> "none", locs |-> <<>>]

\* cli(): the command line is parsed; the server holds any small forest
Init ==
    /\ Fresh
    /\ locs \in Forests(MaxLocs)
    /\ dry_run \in BOOLEAN
    /\ \/ /\ cmd = "create-location"
          /\ arg \in [name : NameSet, description : {Desc}, parent : ParentArgs,
                      csv : {<<>>}]
          /\ tags = <<>>
       \/ /\ cmd = "import-locations"
          /\ arg \in [name : {<<>>}, description : {<<>>}, parent : {None},
                      csv : CsvFiles]
          /\ tags = <<>>
       \/ /\ cmd \in {"export-items", "update-items"}
          /\ arg = NoArg
          /\ tags \in InitTags
    /\ items = InitItems(locs, tags)

\* The client used as a library: get_client() and calls on the result
InitApi ==
    /\ Fresh
    /\ locs \in Forests(MaxLocs)
    /\ tags = <<>>
    /\ items = <<>>
    /\ dry_run = FALSE
    /\ cmd = "api"
    /\ arg = NoArg

\* The same, for the calls that only read the locations
InitPath ==
    /\ Fresh
    /\ locs \in Forests(MaxTreeLocs)
    /\ tags = <<>>
    /\ items = <<>>
    /\ dry_run = FALSE
    /\ cmd = "api"
    /\ arg = NoArg

-----------------------------------------------------------------------------
(* Steps *)

\* What a step leaves behind: the server's state, the step's requests, the
\* outcome in ret, and the next pc (pcok unless an exception propagated)
Finish(c, op, a, v, pcok, pcerr) ==
    /\ locs' = c.locs
    /\ tags' = c.tags
    /\ items' = c.items
    /\ log' = c.log
    /\ first' = IF first = NoReq /\ c.log # <<>> THEN c.log[1] ELSE first
    /\ ret' = [op |-> op, a |-> a, st |-> c.st, err |-> c.err, v |-> v,
               before |-> locs]
    /\ pc' = IF c.st = "ok" THEN pcok ELSE pcerr

\* The positions at which the server may answer a step's request with an
\* HTTP error status: none (0), or any request the step issues when all succeed
FailPoints(c) == 0..Len(c.log)

\* HomeboxClient.__init__ and _authenticate
Login(c) == Send(c, "POST", "login", NoId, NoData, TRUE, FALSE)

\* Mutant of Construct: the exception of a failed login is swallowed
Construct_swallows(tok) ==
    /\ pc = "init"
    /\ \E f \in FailPoints(Login(Ctx(0, 0))) :
          LET c == Login(Ctx(f, 0))
          IN /\ Finish(c, "login", NoCall, <<>>, "ready", "ready")
             /\ hdr' = IF c.st = "ok" THEN tok ELSE hdr
             /\ issued' = IF c.st = "ok" THEN tok ELSE issued
    /\ UNCHANGED <<cmd, dry_run, arg, rowIdx, outfile, run, prev>>

Construct(tok) ==
    /\ pc = "init"
    /\ \E f \in FailPoints(Login(Ctx(0, 0))) :
          LET c == Login(Ctx(f, 0))
          IN /\ Finish(c, "login", NoCall, <<>>, "ready", "error")
             /\ hdr' = IF c.st = "ok" THEN tok ELSE hdr
             /\ issued' = IF c.st = "ok" THEN tok ELSE issued
    /\ UNCHANGED <<cmd, dry_run, arg, rowIdx, outfile, run, prev>>

\* cli(), lines 337-341
create_location_cmd(c) ==
    IF dry_run THEN R(c, "dry")
    ELSE create_location(c, arg.name, arg.description, arg.parent)

CreateLocationCmd ==
    /\ pc = "ready"
    /\ cmd = "create-location"
    /\ \E f \in FailPoints(create_location_cmd(Ctx(0, 0)).c) :
          LET r == create_location_cmd(Ctx(f, 0))
          IN Finish(r.c, "create_location",
                    [NoCall EXCEPT !.name = arg.name, !.parent = arg.parent],
                    r.v, "done", "error")
    /\ UNCHANGED <<issued, hdr, cmd, dry_run, arg, rowIdx, outfile, run, prev>>

\* cli(), lines 343-348: one iteration of the loop over the loaded rows
import_row(c, loc) ==
    IF dry_run THEN R(c, "dry")
    ELSE create_location(c, loc.name, loc.description, loc.parent)

ImportRow ==
    /\ pc = "ready"
    /\ cmd = "import-locations"
    /\ rowIdx < Len(arg.csv)
    /\ LET loc == arg.csv[rowIdx + 1]
       IN \E f \in FailPoints(import_row(Ctx(0, rowIdx + 1), loc).c) :
             LET r == import_row(Ctx(f, rowIdx + 1), loc)
             IN Finish(r.c, "create_location",
                       [NoCall EXCEPT !.name = loc.name, !.parent = loc.parent],
                       r.v, "ready", "error")
    /\ rowIdx' = rowIdx + 1
    /\ UNCHANGED <<issued, hdr, cmd, dry_run, arg, outfile, run, prev>>

\* cli(), line 344: the loop ends after the last row
ImportEnd ==
    /\ pc = "ready"
    /\ cmd = "import-locations"
    /\ rowIdx = Len(arg.csv)
    /\ pc' = "done"
    /\ UNCHANGED <<locs, tags, items, issued, hdr, first, log, cmd, dry_run, arg,
                   rowIdx, ret, outfile, run, prev>>

\* cli(), lines 350-351
ExportItems ==
    /\ pc = "ready"
    /\ cmd = "export-items"
    /\ \E f \in FailPoints(export_items_readable_csv(Ctx(0, 0)).c) :
          LET r == export_items_readable_csv(Ctx(f, 0))
          IN /\ Finish(r.c, "export_items", NoCall, r.v, "done", "error")
             /\ outfile' = IF r.c.st = "ok" THEN r.v ELSE outfile
    /\ UNCHANGED <<issued, hdr, cmd, dry_run, arg, rowIdx, run, prev>>

\* update_items_from_csv_readable, lines 284-303: the reader yields the next
\* row of the file and the loop body runs on it
UpdateRow(row) ==
    /\ pc = "ready"
    /\ cmd = "update-items"
    /\ rowIdx < MaxRows
    /\ \E f \in FailPoints(update_row(Ctx(0, rowIdx + 1), row, dry_run).c) :
          LET r == update_row(Ctx(f, rowIdx + 1), row, dry_run)
          IN Finish(r.c, "update_row",
                    [NoCall EXCEPT !.id = row.id, !.path = row.locationPath,
                                   !.name = row.tags],
                    r.v, "ready", "error")
    /\ rowIdx' = rowIdx + 1
    /\ UNCHANGED <<issued, hdr, cmd, dry_run, arg, outfile, run, prev>>

\* update_items_from_csv_readable, line 284: the reader is exhausted
UpdateEnd ==
    /\ pc = "ready"
    /\ cmd = "update-items"
    /\ pc' = "done"
    /\ UNCHANGED <<locs, tags, items, issued, hdr, first, log, cmd, dry_run, arg,
                   rowIdx, ret, outfile, run, prev>>

\* The user runs import-locations again on the same file
Restart ==
    /\ pc \in {"done", "error"}
    /\ cmd = "import-locations"
    /\ run < MaxRuns
    /\ run' = run + 1
    /\ prev' = [st |-> pc, locs |-> locs]
    /\ pc' = "init"
    /\ hdr' = NoAuth
    /\ first' = NoReq
    /\ log' = <<>>
    /\ rowIdx' = 0
    /\ ret' = NoRet
    /\ UNCHANGED <<locs, tags, items, issued, cmd, dry_run, arg, outfile>>

Next ==
    \/ \E tok \in Tokens : Construct(tok)
    \/ CreateLocationCmd
    \/ ImportRow
    \/ ImportEnd
    \/ ExportItems
    \/ \E row \in UpdateRows : UpdateRow(row)
    \/ UpdateEnd
    \/ Restart

Spec == Init /\ [][Next]_vars

-----------------------------------------------------------------------------
(* The client's methods called on a constructed client: the calls that      *)
(* change the server one after another, the calls that only read it once    *)
(* per process                                                              *)

ApiCreateLocation(name, parent_name) ==
    /\ pc = "ready"
    /\ cmd = "api"
    /\ Len(locs) <= MaxLocs
    /\ \E f \in FailPoints(create_location(Ctx(0, 0), name, Desc, parent_name).c) :
          LET r == create_location(Ctx(f, 0), name, Desc, parent_name)
          IN Finish(r.c, "create_location",
                    [NoCall EXCEPT !.name = name, !.parent = parent_name],
                    r.v, "ready", "ready")
    /\ UNCHANGED <<issued, hdr, cmd, dry_run, arg, rowIdx, outfile, run, prev>>

\* loc = client.get_all_locations()[i]; loc.set_parent(new_parent_name);
\* the value is <<the object as fetched, the object after the call>>
fetch_and_set_parent(c, i, new_parent_name) ==
    LET r0 == get_all_locations(c)
        r == set_parent(r0.c, r0.v[i], new_parent_name)
    IN IF r0.c.st # "ok" THEN R(r0.c, <<>>) ELSE R(r.c, <<r0.v[i], r.v>>)

ApiSetParent(i, new_parent_name) ==
    /\ pc = "ready"
    /\ cmd = "api"
    /\ i \in 1..Len(locs)
    /\ \E f \in FailPoints(fetch_and_set_parent(Ctx(0, 0), i, new_parent_name).c) :
          LET r == fetch_and_set_parent(Ctx(f, 0), i, new_parent_name)
          IN Finish(r.c, "set_parent",
                    [NoCall EXCEPT !.id = locs[i].id, !.parent = new_parent_name],
                    r.v, "ready", "ready")
    /\ UNCHANGED <<issued, hdr, cmd, dry_run, arg, rowIdx, outfile, run, prev>>

ApiResolve(path) ==
    /\ pc = "ready"
    /\ cmd = "api"
    /\ \E f \in FailPoints(resolve_location_path(Ctx(0, 0), path).c) :
          LET r == resolve_location_path(Ctx(f, 0), path)
          IN Finish(r.c, "resolve_location_path", [NoCall EXCEPT !.path = path],
                    r.v, "done", "error")
    /\ UNCHANGED <<issued, hdr, cmd, dry_run, arg, rowIdx, outfile, run, prev>>

ApiBuildTree ==
    /\ pc = "ready"
    /\ cmd = "api"
    /\ \E f \in FailPoints(build_location_lookup_tree(Ctx(0, 0)).c) :
          LET r == build_location_lookup_tree(Ctx(f, 0))
          IN Finish(r.c, "build_location_lookup_tree", NoCall, r.v, "done", "error")
    /\ UNCHANGED <<issued, hdr, cmd, dry_run, arg, rowIdx, outfile, run, prev>>

NextApi ==
    \/ \E tok \in Tokens : Construct(tok)
    \/ \E n \in NameSet, p \in ParentArgs : ApiCreateLocation(n, p)
    \/ \E i \in 1..(MaxLocs + 1), p \in NameSet \cup {<<>>} : ApiSetParent(i, p)

ApiSpec == InitApi /\ [][NextApi]_vars

NextPath ==
    \/ \E tok \in Tokens : Construct(tok)
    \/ \E path \in PathInputs : ApiResolve(path)
    \/ ApiBuildTree

PathSpec == InitPath /\ [][NextPath]_vars

-----------------------------------------------------------------------------
(* What the claims speak of *)

\* The names on the parent chain of the record id, root first
RECURSIVE ChainNames(_, _)
ChainNames(ls, id) ==
    LET l == LocById(ls, id)
    IN IF l.parent = NoId THEN <<l.name>>
       ELSE Append(ChainNames(ls, l.parent), l.name)

\* The path string that spells the names from a root down to the record id
TruePath(ls, id) == Join(ChainNames(ls, id), <<"/">>)

\* Names are unique among the children of each parent, and among the roots
SiblingUnique(ls) ==
    \A i, j \in 1..Len(ls) :
        (i # j /\ ls[i].parent = ls[j].parent) => ls[i].name # ls[j].name

HttpFailed == ret.err.kind = "HTTPError"

Built == ret.op = "build_location_lookup_tree"
Resolved == ret.op = "resolve_location_path"

\* C7: build_location_lookup_tree on a forest terminates and maps every
\* location id to the names on its parent chain joined with "/", root first
\* and the location itself last; a root's entry is its bare name.  (Only an
\* HTTP error of one of its GETs makes it raise.)
C7_LookupTreeIsChain ==
    (Built /\ Acyclic(locs)) =>
        /\ ret.st = "ok" <=> ~HttpFailed
        /\ ret.st = "ok" =>
              /\ {p[1] : p \in ret.v} = {locs[i].id : i \in 1..Len(locs)}
              /\ \A i \in 1..Len(locs) :
                    /\ MapGet(ret.v, locs[i].id, None) = TruePath(locs, locs[i].id)
                    /\ locs[i].parent = NoId =>
                          MapGet(ret.v, locs[i].id, None) = locs[i].name

\* A lookup tree was built over a chain of three locations
C7_Witness ==
    /\ Built
    /\ ret.st = "ok"
    /\ \E p \in ret.v : p[2] = <<"a", "/", "b", "/", "a">>
    /\ \E p \in ret.v : p[2] = <<"a">>

\* The segments of the path handed to the latest resolve_location_path
PartsOf(path) == Split(Strip(path), "/")

\* Segment k of parts has a record under the expected parent: a record of
\* that name whose parent bears the previous segment's name (any record of
\* that name for the first segment)
Matches(ls, parts, k) ==
    \E i \in 1..Len(ls) :
        /\ ls[i].name = parts[k]
        /\ k > 1 => DetailParentName(ls, ls[i]) = parts[k - 1]

ListGets(lg) == Len(SelectSeq(lg, LAMBDA e : e.m = "GET" /\ e.res = "locations" /\ e.id = NoId))

\* C4: resolve_location_path on a non-empty path with a segment that has no
\* matching record under the expected parent raises instead of returning an
\* identifier; the error names the leftmost such segment and the full path,
\* and no segment to its right is looked up.
C4_ResolveRaisesAtFirstMissing ==
    (Resolved /\ Truthy(ret.a.path)) =>
        LET parts == PartsOf(ret.a.path)
            missing == {k \in 1..Len(parts) : ~Matches(locs, parts, k)}
        IN missing # {} =>
              LET k0 == CHOOSE k \in missing : \A j \in missing : k <= j
              IN /\ ret.st = "error"
                 /\ ret.v.id = NoId
                 /\ ListGets(log) <= k0
                 /\ ~HttpFailed =>
                       /\ ret.err = Err("ValueError", ret.a.path, parts[k0])
                       /\ ListGets(log) = k0
                       /\ \A n \in 1..Len(log) :
                             log[n].id # NoId =>
                                \E k \in 1..k0 : LocById(locs, log[n].id).name = parts[k]

\* A two-segment path whose first segment resolved and whose second did not
C4_Witness ==
    /\ Resolved
    /\ ret.a.path = <<"a", "/", "b">>
    /\ ret.err = Err("ValueError", <<"a", "/", "b">>, <<"b">>)
    /\ \E i \in 1..Len(locs) : locs[i].name = <<"b">>

\* C9: when resolve_location_path succeeds, the record matched for each
\* segment after the first has as its parent the record matched for the
\* segment before it.
C9_MatchedChainByIdentifier ==
    (Resolved /\ ret.st = "ok" /\ Truthy(ret.a.path)) =>
        \A k \in 1..(Len(ret.v.matched) - 1) :
            LocById(locs, ret.v.matched[k + 1]).parent = ret.v.matched[k]

\* C2: on sibling-unique records, resolving the path string that spells the
\* names from a root down to an existing location returns an identifier whose
\* entry in build_location_lookup_tree() is that path string.
C2_ResolveThenBuildRoundTrip ==
    (/\ Resolved
     /\ ~HttpFailed
     /\ SiblingUnique(locs)
     /\ \E i \in 1..Len(locs) : TruePath(locs, locs[i].id) = ret.a.path) =>
        /\ ret.st = "ok"
        /\ MapGet(build_location_lookup_tree(Ctx(0, 0)).v, ret.v.id, None) = ret.a.path

\* A record of ls with this name and this parent: under a parent of that
\* name, or a root when no parent is named (None or "", which line 179
\* takes for no parent)
ExistsSame(ls, name, parent_name) ==
    \E i \in 1..Len(ls) :
        /\ ls[i].name = name
        /\ IF Truthy(parent_name) THEN DetailParentName(ls, ls[i]) = parent_name
           ELSE ls[i].parent = NoId

Named(ls, name) == \E i \in 1..Len(ls) : ls[i].name = name

NoMutation == \A n \in 1..Len(log) : ~Mutating(log[n])

Created == ret.op = "create_location"
Reparented == ret.op = "set_parent"

\* C3: create_location when a location with the same name and the same
\* parent already exists issues no POST /locations, returns no new record and
\* leaves the server's locations as they were.
C3_CreateExistingIsNoOp ==
    (Created /\ ExistsSame(ret.before, ret.a.name, ret.a.parent)) =>
        /\ NoMutation
        /\ ret.v # "created"
        /\ locs = ret.before

\* C8: create_location with a parent name that matches no location, and
\* Location.set_parent with a new parent name that matches no location, raise
\* and issue no POST or PUT; the server's locations and the object's parentId
\* stay as they were.
C8_MissingParentRaises ==
    /\ (Created /\ Truthy(ret.a.parent) /\ ~Named(ret.before, ret.a.parent)) =>
          /\ ret.st = "error"
          /\ ret.v = "raised"
          /\ NoMutation
          /\ locs = ret.before
    /\ (Reparented /\ ~Named(ret.before, ret.a.parent)) =>
          /\ ret.st = "error"
          /\ NoMutation
          /\ locs = ret.before
          /\ ret.v # <<>> => ret.v[2] = ret.v[1]

\* set_parent was called on a fetched child with a name no location bears
C8_Witness ==
    /\ Reparented
    /\ ret.err = Err("ValueError", <<>>, <<"b">>)
    /\ ret.v # <<>>
    /\ ret.v[1].parentId # NoId
    /\ Len(log) > 2

-----------------------------------------------------------------------------
(* The commands *)

Batch == cmd \in {"import-locations", "update-items"}

\* C1: with --dry-run no command issues a POST, PUT or DELETE on /locations,
\* /tags or /items.
C1_DryRunNeverMutates ==
    dry_run => NoMutation

\* C10: a second run of import-locations on the same file, after a first run
\* that completed, issues no POST /locations and leaves the locations as the
\* first run left them.
C10_ImportTwiceIsIdempotent ==
    (cmd = "import-locations" /\ ~dry_run /\ run > 1 /\ prev.st = "done") =>
        /\ \A n \in 1..Len(log) : ~(log[n].m = "POST" /\ log[n].res = "locations")
        /\ locs = prev.locs

IsPrefix(s, t) == Len(s) <= Len(t) /\ SubSeq(t, 1, Len(s)) = s

OkCount(lg, m, res) ==
    Len(SelectSeq(lg, LAMBDA e : e.m = m /\ e.res = res /\ e.ok))

\* A step of a batch command has ended in an error: an exception propagated,
\* or the server answered a request with an error status
RowFailed == ret.st = "error" \/ \E n \in 1..Len(log) : ~log[n].ok

\* C5, in a state: the requests of a row's step belong to the row the loop
\* has reached, which for import-locations is the row of that position in the
\* file; a request answered with an error status is the step's last.
C5_RowInOrder ==
    (Batch /\ ~dry_run /\ ret.op \in {"create_location", "update_row"}) =>
        /\ \A n \in 1..Len(log) : log[n].row = rowIdx
        /\ \A n \in 1..Len(log) : ~log[n].ok => n = Len(log)
        /\ cmd = "import-locations" =>
              /\ ret.a.name = arg.csv[rowIdx].name
              /\ ret.a.parent = arg.csv[rowIdx].parent
        /\ RowFailed => pc = "error"

\* C5, in a step: rows are consumed one at a time; after a row failed the
\* process issues no request and changes nothing; and what a step's
\* successful POSTs and PUTs did is on the server after the step, whether or
\* not the step failed later (nothing is rolled back).
C5_StepKeepsAndStops ==
    (Batch /\ ~dry_run /\ run' = run) =>
        /\ rowIdx' \in {rowIdx, rowIdx + 1}
        /\ (ret.op # "login" /\ RowFailed) =>
              UNCHANGED <<locs, tags, items, log, rowIdx, pc>>
        /\ log' # log =>
              /\ IsPrefix(locs, locs')
              /\ IsPrefix(tags, tags')
              /\ Len(locs') = Len(locs) + OkCount(log', "POST", "locations")
              /\ Len(tags') = Len(tags) + OkCount(log', "POST", "tags")
              /\ \A n \in 1..Len(log') :
                    (log'[n].m = "PUT" /\ log'[n].ok) =>
                        \E i \in 1..Len(items') :
                            /\ items'[i].id = log'[n].id
                            /\ items'[i].locationId = log'[n].data.ref
              /\ OkCount(log', "PUT", "items") = 0 => items' = items

\* C5: in a batch command without --dry-run the rows are processed in file
\* order; when the processing of a row ends in an error no request is issued
\* for any later row, and the changes made before the error are kept.
C5_BatchAbortsKeepsEarlier == []C5_RowInOrder /\ [][C5_StepKeepsAndStops]_vars

\* The second row of an update failed at its PUT after creating a tag, the
\* first row having updated the item
C5_Witness ==
    /\ cmd = "update-items"
    /\ ~dry_run
    /\ rowIdx = 2
    /\ pc = "error"
    /\ OkCount(log, "POST", "tags") = 1
    /\ Len(log) > 0
    /\ log[Len(log)].m = "PUT"
    /\ ~log[Len(log)].ok
    /\ items[1].name = <<"y">>

\* C6, in a state: the first request of a process is the login; every other
\* request carries the token that login returned; a failed login leaves the
\* process in error with nothing but the login sent.
C6_LoginFirstTokenOnAll ==
    /\ first # NoReq => (first.m = "POST" /\ first.res = "login")
    /\ pc = "init" => (first = NoReq /\ log = <<>>)
    /\ \A n \in 1..Len(log) :
          IF log[n].res = "login"
          THEN ret.op = "login" /\ Len(log) = 1 /\ log[n].auth = NoAuth
          ELSE issued # NoAuth /\ log[n].auth = issued /\ ret.op # "login"
    /\ (ret.op = "login" /\ ~log[1].ok) => (pc = "error" /\ hdr = NoAuth)

\* C6, in a step: after a failed login the process issues no request
C6_NothingAfterFailedLogin ==
    (ret.op = "login" /\ ~log[1].ok /\ run' = run) =>
        UNCHANGED <<log, pc, locs, tags, items>>

\* C6: the login precedes every other request; every request after a
\* successful login carries the token it returned; after a failed login no
\* other request is issued.
C6_LoginThenToken == []C6_LoginFirstTokenOnAll /\ [][C6_NothingAfterFailedLogin]_vars

\* A second run logged in with another token than the first and sent a
\* request with it
C6_Witness ==
    /\ run = 2
    /\ issued = "tok2"
    /\ log # <<>>
    /\ log[1].res = "locations"
    /\ log[1].auth = "tok2"

====
